---- MODULE Spec2Model ----
(***************************************************************************)
(* Model of the websocket relay of backend/app/main.py: the connection     *)
(* manager (active_connections), the per-connection handler                *)
(* websocket_endpoint cut at its await points, the users and messages      *)
(* tables and the translator.  asyncio runs one handler at a time and      *)
(* switches handlers only at an await, so every action below is the code   *)
(* between two awaits of one handler.                                      *)
(***************************************************************************)
EXTENDS Integers, Sequences, FiniteSets, TLC

\* ---------------------------------------------------------------- bounds
NumConns == 2
MaxFrames == 2

Conns == 1..NumConns

\* ------------------------------------------------------------- sentinels
\* Python None for a user id, a websocket and a row id
NoUser == 0
NoChannel == 0
NoId == 0

\* --------------------------------------------------------------- tables
\* rows of models.User that exist in the database
UsersTable ==
    { [id |-> 1, username |-> "alice", language |-> "en"],
      [id |-> 2, username |-> "bob", language |-> "es"] }

UserIds == { u.id : u \in UsersTable }

\* receiver ids a client may put in a frame: the users and one unknown id
FrameIds == UserIds \cup {3}

Texts == {"hello"}

\* inbound JSON objects: well formed, without "message", without "receiver_id",
\* and with an extra "sender_id" chosen by the client (bob's id, to bob)
Frames ==
    [receiver_id : FrameIds, message : Texts]
        \cup [receiver_id : FrameIds]
        \cup [message : Texts]
        \cup [receiver_id : {2}, message : Texts, sender_id : {2}]

NoData == [none |-> TRUE]

\* tokens a client may present in /ws/{token}
Tokens == {"tok_alice", "tok_bob", "tok_ghost", "tok_nosub", "tok_forged"}

\* jwt.decode(token, SECRET_KEY): the payload, or raised |-> TRUE on a bad
\* signature; sub is "" when the payload has no "sub"
jwt_decode(token) ==
    CASE token = "tok_alice" -> [raised |-> FALSE, sub |-> "alice"]
      [] token = "tok_bob" -> [raised |-> FALSE, sub |-> "bob"]
      [] token = "tok_ghost" -> [raised |-> FALSE, sub |-> "ghost"]
      [] token = "tok_nosub" -> [raised |-> FALSE, sub |-> ""]
      [] OTHER -> [raised |-> TRUE, sub |-> ""]

\* auth.get_user(db, username): the id of the row, or None
get_user(username) ==
    IF \E u \in UsersTable : u.username = username
    THEN (CHOOSE u \in UsersTable : u.username = username).id
    ELSE NoUser

\* the filter left out: first() returns the first row of the table
query_receiver_unfiltered(rid) ==
    (CHOOSE u \in UsersTable : \A v \in UsersTable : u.id <= v.id).id

\* db.query(models.User).filter(models.User.id == rid).first(): id or None
query_receiver(rid) ==
    IF \E u \in UsersTable : u.id = rid THEN rid ELSE NoUser

receiver_language(rid) ==
    (CHOOSE u \in UsersTable : u.id = rid).language

\* the except branch returns an empty string instead of the text
translate_text_failclosed(text, lang, translatorOk) ==
    IF translatorOk THEN lang \o ":" \o text ELSE ""

\* translate_text: the translator's output, the text itself when it raises
translate_text(text, lang, translatorOk) ==
    IF translatorOk THEN lang \o ":" \o text ELSE text

\* ----------------------------------------------------- ConnectionManager
\* active_connections is a dict: a set of <<key, value>> pairs

\* the membership test of line 50 left out
Has_unchecked(r, u) == TRUE

\* user_id in self.active_connections
Has(r, u) == \E p \in r : p[1] = u

\* the subscript with the wrong key: some websocket of the dict
Get_any(r, u) ==
    IF r # {} THEN (CHOOSE p \in r : \A q \in r : p[1] <= q[1])[2] ELSE NoChannel

\* self.active_connections[user_id]; NoChannel stands for KeyError
Get(r, u) ==
    IF \E p \in r : p[1] = u THEN (CHOOSE p \in r : p[1] = u)[2] ELSE NoChannel

\* setdefault instead of assignment: the first websocket of a user stays
connect_keepfirst(r, u, ws) == IF \E p \in r : p[1] = u THEN r ELSE r \cup { <<u, ws>> }

\* self.active_connections[user_id] = websocket
connect(r, u, ws) == { p \in r : p[1] # u } \cup { <<u, ws>> }

\* the pop left out
disconnect_forgotten(r, u) == r

\* self.active_connections.pop(user_id, None)
disconnect(r, u) == { p \in r : p[1] # u }

\* -------------------------------------------------------------- messages
\* the sender taken from the frame when the client supplies one
new_message_client_sender(user_id, data, translated) ==
    [ id |-> NoId,
      sender_id |-> IF "sender_id" \in DOMAIN data THEN data.sender_id ELSE user_id,
      receiver_id |-> data.receiver_id,
      original_message |-> data.message,
      translated_message |-> translated,
      timestamp |-> 0 ]

\* models.Message(...) of lines 143-148; id and timestamp are set by the
\* database at commit
new_message(user_id, data, translated) ==
    [ id |-> NoId,
      sender_id |-> user_id,
      receiver_id |-> data.receiver_id,
      original_message |-> data.message,
      translated_message |-> translated,
      timestamp |-> 0 ]

\* the row added and committed twice
db_add_commit_twice(msgs, row) ==
    Append(Append(msgs, [row EXCEPT !.id = Len(msgs) + 1]),
           [row EXCEPT !.id = Len(msgs) + 2])

\* db.add(message); db.commit(): the row gets the next autoincrement id
db_add_commit(msgs, row) ==
    Append(msgs, [row EXCEPT !.id = Len(msgs) + 1])

\* server_default=func.now(): the row gets the database clock at the insert
stamp(msgs, now) ==
    [msgs EXCEPT ![Len(msgs)].timestamp = now]

\* the dict built from the row as it was before commit and refresh
outbound_frame_unrefreshed(message, user_id, data) ==
    [ id |-> NoId,
      sender_id |-> user_id,
      receiver_id |-> data.receiver_id,
      original_message |-> message.original_message,
      translated_message |-> message.translated_message,
      timestamp |-> message.timestamp ]

\* the dict handed to send_personal_message, built from the refreshed row
outbound_frame(message, user_id, data) ==
    [ id |-> message.id,
      sender_id |-> user_id,
      receiver_id |-> data.receiver_id,
      original_message |-> message.original_message,
      translated_message |-> message.translated_message,
      timestamp |-> message.timestamp ]

NoFrame == [none |-> TRUE]

\* --------------------------------------------------------------- history
\* the filter of get_messages sees only the rows the caller sent
get_messages_sent_only(msgs, current_user_id, user_id) ==
    { msgs[k] : k \in { j \in 1..Len(msgs) :
        msgs[j].sender_id = current_user_id /\ msgs[j].receiver_id = user_id } }

\* the rows selected by the filter of get_messages, lines 111-116
get_messages(msgs, current_user_id, user_id) ==
    { msgs[k] : k \in { j \in 1..Len(msgs) :
        \/ (msgs[j].sender_id = current_user_id /\ msgs[j].receiver_id = user_id)
        \/ (msgs[j].sender_id = user_id /\ msgs[j].receiver_id = current_user_id) } }

\* .all() of a query without ORDER BY: the rows in an order the database picks
Orderings(rows) ==
    { q \in [1..Cardinality(rows) -> rows] : \A r \in rows : \E i \in DOMAIN q : q[i] = r }

VARIABLES
    pc,          \* where each handler is suspended
    wsOpen,      \* whether each websocket can still carry frames
    cuser,       \* the local `user` of each handler (its id)
    userBound,   \* whether `user` is in locals() of each handler
    closeCodes,  \* the codes the server passed to websocket.close, per socket
    reg,         \* manager.active_connections
    data,        \* the local `data` of each handler
    target,      \* the websocket whose send_json the handler awaits
    sending,     \* the dict that send_json is sending
    token,       \* the token in the path of each websocket ("" before it starts)
    dbClock,     \* the clock of the database, read by func.now(); an insert
                 \* happens at a later instant than the inserts before it
    history,     \* the latest response of GET /messages/{user_id}
    messages,    \* the messages table
    outbox,      \* frames written to a websocket by send_json
    frameLog,    \* history: what became of each inbound frame
    lastReg,     \* history: the websocket of the latest connect per user
    unregSince   \* history: a disconnect ran for the user since that connect

vars == << pc, wsOpen, cuser, userBound, closeCodes, reg, data, target, sending,
           token, dbClock, history, messages, outbox, frameLog, lastReg,
           unregSince >>

NoHistory == [none |-> TRUE]

Init ==
    /\ pc = [c \in Conns |-> "new"]
    /\ wsOpen = [c \in Conns |-> TRUE]
    /\ cuser = [c \in Conns |-> NoUser]
    /\ userBound = [c \in Conns |-> FALSE]
    /\ closeCodes = [c \in Conns |-> << >>]
    /\ reg = {}
    /\ data = [c \in Conns |-> NoData]
    /\ target = [c \in Conns |-> NoChannel]
    /\ sending = [c \in Conns |-> NoFrame]
    /\ token = [c \in Conns |-> ""]
    /\ dbClock = 0
    /\ history = NoHistory
    /\ messages = << >>
    /\ outbox = {}
    /\ frameLog = << >>
    /\ lastReg = [u \in UserIds |-> NoChannel]
    /\ unregSince = [u \in UserIds |-> FALSE]

\* the handler returns: the server closes the websocket if it is still open
HandlerReturn(c) ==
    /\ pc' = [pc EXCEPT ![c] = "done"]
    /\ wsOpen' = [wsOpen EXCEPT ![c] = FALSE]

\* the exception caught inside the loop: the handler goes on receiving
HandlerExcept_continue(c) ==
    /\ pc' = [pc EXCEPT ![c] = "recv"]
    /\ UNCHANGED << wsOpen, reg, unregSince >>

\* the `except Exception` block of websocket_endpoint, lines 168-171
HandlerExcept(c) ==
    /\ HandlerReturn(c)
    /\ IF userBound[c]
       THEN /\ reg' = disconnect(reg, cuser[c])
            /\ unregSince' = [unregSince EXCEPT ![cuser[c]] = TRUE]
       ELSE UNCHANGED << reg, unregSince >>

\* the client goes away (close, reset, network loss)
PeerDisconnect(c) ==
    /\ pc[c] \in {"accepting", "recv", "translating", "sending"}
    /\ wsOpen[c]
    /\ wsOpen' = [wsOpen EXCEPT ![c] = FALSE]
    /\ UNCHANGED << pc, cuser, userBound, closeCodes, reg, data, target,
                    sending, token, dbClock, history, messages, outbox,
                    frameLog, lastReg, unregSince >>

\* lines 121-136 up to the await in manager.connect
WsStart(c) ==
    /\ pc[c] = "new"
    \* websockets are numbered in the order in which their handlers start
    /\ \A d \in Conns : d < c => pc[d] # "new"
    /\ \E tok \in Tokens :
         LET payload == jwt_decode(tok)
             user == get_user(payload.sub)
         IN  /\ token' = [token EXCEPT ![c] = tok]
             /\ IF payload.raised
                 THEN \* JWTError: `user` is not bound yet
                      /\ HandlerExcept(c)
                      /\ UNCHANGED << cuser, userBound, closeCodes >>
                 ELSE IF payload.sub = ""
                 THEN /\ closeCodes' = [closeCodes EXCEPT ![c] = Append(@, 1008)]
                      /\ HandlerReturn(c)
                      /\ UNCHANGED << cuser, userBound, reg, unregSince >>
                 ELSE IF user = NoUser
                 THEN /\ closeCodes' = [closeCodes EXCEPT ![c] = Append(@, 1008)]
                      /\ HandlerReturn(c)
                      /\ userBound' = [userBound EXCEPT ![c] = TRUE]
                      /\ UNCHANGED << cuser, reg, unregSince >>
                 ELSE /\ cuser' = [cuser EXCEPT ![c] = user]
                      /\ userBound' = [userBound EXCEPT ![c] = TRUE]
                      /\ pc' = [pc EXCEPT ![c] = "accepting"]
                      /\ UNCHANGED << wsOpen, closeCodes, reg, unregSince >>
    /\ UNCHANGED << data, target, sending, dbClock, history, messages, outbox,
                    frameLog, lastReg >>

\* manager.connect after websocket.accept() returned or raised, lines 42-44
WsAccept(c) ==
    /\ pc[c] = "accepting"
    /\ \E accepted \in IF wsOpen[c] THEN {TRUE} ELSE {TRUE, FALSE} :
         IF accepted
         THEN /\ reg' = connect(reg, cuser[c], c)
              /\ lastReg' = [lastReg EXCEPT ![cuser[c]] = c]
              /\ unregSince' = [unregSince EXCEPT ![cuser[c]] = FALSE]
              /\ pc' = [pc EXCEPT ![c] = "recv"]
              /\ UNCHANGED wsOpen
         ELSE /\ HandlerExcept(c)
              /\ UNCHANGED lastReg
    /\ UNCHANGED << cuser, userBound, closeCodes, data, target, sending,
                    token, dbClock, history, messages, outbox, frameLog >>

\* the frame a handler is working on: its index in frameLog
CurFid(c) ==
    CHOOSE i \in 1..Len(frameLog) :
        frameLog[i].conn = c /\ frameLog[i].outcome \in {"translating", "sending"}

LogEntry(c, f, outcome) ==
    [ conn |-> c, frame |-> f, outcome |-> outcome, persisted |-> 0,
      mid |-> NoId, target |-> NoChannel, view |-> {}, expect |-> NoChannel,
      translator |-> "none" ]

\* the frame handed to a task of its own: the loop receives the next frame
\* while this one is still being translated
WsReceive_spawn(c) ==
    /\ pc[c] = "recv"
    /\ IF ~wsOpen[c]
       THEN \* WebSocketDisconnect
            /\ HandlerExcept(c)
            /\ UNCHANGED << data, frameLog >>
       ELSE /\ Len(frameLog) < MaxFrames
            /\ \E f \in Frames :
                 IF "receiver_id" \notin DOMAIN f
                 THEN \* KeyError at data["receiver_id"]
                      /\ HandlerExcept(c)
                      /\ frameLog' = Append(frameLog, LogEntry(c, f, "malformed"))
                      /\ UNCHANGED data
                 ELSE IF query_receiver(f.receiver_id) = NoUser
                 THEN \* `if receiver:` is false, back to receive_json
                      /\ frameLog' = Append(frameLog, LogEntry(c, f, "dropped"))
                      /\ UNCHANGED << pc, wsOpen, reg, data, unregSince >>
                 ELSE IF "message" \notin DOMAIN f
                 THEN \* KeyError at data["message"]
                      /\ HandlerExcept(c)
                      /\ frameLog' = Append(frameLog, LogEntry(c, f, "malformed"))
                      /\ UNCHANGED data
                 ELSE /\ data' = [data EXCEPT ![c] = f]
                      /\ frameLog' = Append(frameLog, LogEntry(c, f, "translating"))
                      /\ UNCHANGED << pc, wsOpen, reg, unregSince >>
    /\ UNCHANGED << cuser, userBound, closeCodes, target, sending, token,
                    dbClock, history, messages, outbox, lastReg >>

\* receive_json returned or raised; lines 139-142 up to the await of
\* translate_text
WsReceive(c) ==
    /\ pc[c] = "recv"
    /\ IF ~wsOpen[c]
       THEN \* WebSocketDisconnect
            /\ HandlerExcept(c)
            /\ UNCHANGED << data, frameLog >>
       ELSE /\ Len(frameLog) < MaxFrames
            /\ \E f \in Frames :
                 IF "receiver_id" \notin DOMAIN f
                 THEN \* KeyError at data["receiver_id"]
                      /\ HandlerExcept(c)
                      /\ frameLog' = Append(frameLog, LogEntry(c, f, "malformed"))
                      /\ UNCHANGED data
                 ELSE IF query_receiver(f.receiver_id) = NoUser
                 THEN \* `if receiver:` is false, back to receive_json
                      /\ frameLog' = Append(frameLog, LogEntry(c, f, "dropped"))
                      /\ UNCHANGED << pc, wsOpen, reg, data, unregSince >>
                 ELSE IF "message" \notin DOMAIN f
                 THEN \* KeyError at data["message"]
                      /\ HandlerExcept(c)
                      /\ frameLog' = Append(frameLog, LogEntry(c, f, "malformed"))
                      /\ UNCHANGED data
                 ELSE /\ data' = [data EXCEPT ![c] = f]
                      /\ pc' = [pc EXCEPT ![c] = "translating"]
                      /\ frameLog' = Append(frameLog, LogEntry(c, f, "translating"))
                      /\ UNCHANGED << wsOpen, reg, unregSince >>
    /\ UNCHANGED << cuser, userBound, closeCodes, target, sending, token,
                    dbClock, history, messages, outbox, lastReg >>

\* translate_text returned; lines 142-163 up to the await of send_json in
\* send_personal_message (lines 49-51)
WsPersistAndSend(c) ==
    /\ pc[c] = "translating"
    /\ \E translatorOk \in BOOLEAN, commitOk \in BOOLEAN :
         LET fid == CurFid(c)
             rid == data[c].receiver_id
             translated == translate_text(data[c].message,
                                          receiver_language(rid), translatorOk)
             row == new_message(cuser[c], data[c], translated)
             msgs == stamp(db_add_commit(messages, row), dbClock + 1)
             message == msgs[Len(msgs)]
             frame == outbound_frame(message, cuser[c], data[c])
             \* history: what the registry held at the lookup
             seen == [ persisted |-> Len(msgs) - Len(messages),
                       mid |-> message.id,
                       view |-> { p[2] : p \in { q \in reg : q[1] = rid } },
                       expect |-> IF unregSince[rid] THEN NoChannel
                                  ELSE lastReg[rid] ]
             Log(outcome, ws) ==
                 [frameLog EXCEPT ![fid] =
                     [@ EXCEPT !.outcome = outcome, !.target = ws,
                               !.persisted = seen.persisted, !.mid = seen.mid,
                               !.translator = IF translatorOk THEN "ok" ELSE "raised",
                               !.view = seen.view, !.expect = seen.expect]]
         IN  IF ~commitOk
             THEN \* db.commit() raised
                  /\ HandlerExcept(c)
                  /\ frameLog' = [frameLog EXCEPT ![fid].outcome = "persist_failed"]
                  /\ data' = [data EXCEPT ![c] = NoData]
                  /\ UNCHANGED << messages, dbClock, target, sending >>
             ELSE /\ messages' = msgs
                  /\ dbClock' = dbClock + 1
                  /\ IF Has(reg, rid)
                     THEN IF Get(reg, rid) = NoChannel
                          THEN \* KeyError at active_connections[user_id]
                               /\ HandlerExcept(c)
                               /\ frameLog' = Log("key_error", NoChannel)
                               /\ data' = [data EXCEPT ![c] = NoData]
                               /\ UNCHANGED << target, sending >>
                          ELSE /\ target' = [target EXCEPT ![c] = Get(reg, rid)]
                               /\ sending' = [sending EXCEPT ![c] = frame]
                               /\ pc' = [pc EXCEPT ![c] = "sending"]
                               /\ frameLog' = Log("sending", Get(reg, rid))
                               /\ UNCHANGED << wsOpen, reg, data, unregSince >>
                     ELSE \* receiver not connected, back to receive_json
                          /\ pc' = [pc EXCEPT ![c] = "recv"]
                          /\ frameLog' = Log("absent", NoChannel)
                          /\ data' = [data EXCEPT ![c] = NoData]
                          /\ UNCHANGED << wsOpen, reg, target, sending,
                                          unregSince >>
    /\ UNCHANGED << cuser, userBound, closeCodes, token, history, outbox,
                    lastReg >>

\* send_json returned or raised; back to receive_json or into the except block
WsSendDone(c) ==
    /\ pc[c] = "sending"
    /\ \E pushed \in IF wsOpen[target[c]] THEN {TRUE} ELSE {TRUE, FALSE} :
         LET fid == CurFid(c)
         IN  IF pushed
             THEN /\ outbox' = outbox \cup { [ch |-> target[c], frame |-> sending[c]] }
                  /\ pc' = [pc EXCEPT ![c] = "recv"]
                  /\ frameLog' = [frameLog EXCEPT ![fid].outcome = "delivered"]
                  /\ UNCHANGED << wsOpen, reg, unregSince >>
             ELSE /\ HandlerExcept(c)
                  /\ frameLog' = [frameLog EXCEPT ![fid].outcome = "push_failed"]
                  /\ UNCHANGED outbox
    /\ data' = [data EXCEPT ![c] = NoData]
    /\ target' = [target EXCEPT ![c] = NoChannel]
    /\ sending' = [sending EXCEPT ![c] = NoFrame]
    /\ UNCHANGED << cuser, userBound, closeCodes, token, dbClock, history,
                    messages, lastReg >>

\* GET /messages/{user_id} by an authenticated user, lines 104-117
GetMessages(current_user_id, user_id) ==
    /\ \E rows \in Orderings(get_messages(messages, current_user_id, user_id)) :
         history' = [ principal |-> current_user_id, target |-> user_id,
                      rows |-> rows ]
    /\ UNCHANGED << pc, wsOpen, cuser, userBound, closeCodes, reg, data, target,
                    sending, token, dbClock, messages, outbox, frameLog,
                    lastReg, unregSince >>

Next ==
    \E c \in Conns :
        \/ PeerDisconnect(c)
        \/ WsStart(c)
        \/ WsAccept(c)
        \/ WsReceive(c)
        \/ WsPersistAndSend(c)
        \/ WsSendDone(c)

Spec == Init /\ [][Next]_vars

\* the websocket handlers together with the history endpoint
NextQuery ==
    \/ Next
    \/ \E current_user_id \in UserIds, user_id \in UserIds :
          GetMessages(current_user_id, user_id)

SpecQuery == Init /\ [][NextQuery]_vars

\* ---------------------------------------------------------------- claims
Pushing == {"sending", "delivered", "push_failed"}
Attempted == Pushing \cup {"absent"}
Active == {"recv", "translating", "sending"}
Fids == 1..Len(frameLog)

\* C1: an unregister removes the mapping of a user only when the registered
\* channel is the channel of the connection that unregisters: an entry leaves
\* the registry only in the step in which the handler of its own websocket ends
C1_StaleUnregisterIsNoOp ==
    [][\A u \in UserIds :
          (Has(reg, u) /\ ~Has(reg', u))
              => (pc[Get(reg, u)] # "done" /\ pc'[Get(reg, u)] = "done")]_vars

\* C2: a push that fails is not propagated to the sender: after the step in
\* which the push of a persisted frame fails the sender is Active again and
\* is still registered if it was
C2_PushFailureNotPropagated ==
    [][\A c \in Conns :
          (pc[c] = "sending" /\ frameLog'[CurFid(c)].outcome = "push_failed")
              => /\ pc'[c] = "recv"
                 /\ (<<cuser[c], c>> \in reg => <<cuser[c], c>> \in reg')]_vars

\* C3: after a push to the channel registered for a user fails, the registry
\* no longer maps that user to that channel
C3_FailedPushUnregistersChannel ==
    [][\A c \in Conns :
          (pc[c] = "sending" /\ frameLog'[CurFid(c)].outcome = "push_failed")
              => <<sending[c].receiver_id, target[c]>> \notin reg']_vars

\* C4: when a registration replaces the channel of a user, the replaced
\* channel is closed exactly once in that step
C4_ReplacedChannelClosedOnce ==
    [][\A u \in UserIds :
          (Has(reg, u) /\ Has(reg', u) /\ Get(reg', u) # Get(reg, u))
              => /\ Len(closeCodes'[Get(reg, u)]) = 1
                 /\ Len(closeCodes[Get(reg, u)]) = 0]_vars

\* C5: the registry holds at most one channel per user; while no unregister
\* has run for a user since its latest register, the registry maps the user
\* to the channel of that register, and every frame looked up in that period
\* is pushed to that channel and to no other
C5_LastWriterWins ==
    /\ \A u \in UserIds : Cardinality({ p \in reg : p[1] = u }) <= 1
    /\ \A u \in UserIds :
          (lastReg[u] # NoChannel /\ ~unregSince[u]) => <<u, lastReg[u]>> \in reg
    /\ \A i \in Fids :
          (frameLog[i].outcome \in Attempted /\ frameLog[i].expect # NoChannel)
              => /\ frameLog[i].outcome \in Pushing
                 /\ frameLog[i].target = frameLog[i].expect
                 /\ \A o \in outbox :
                       o.frame.id = frameLog[i].mid => o.ch = frameLog[i].expect

\* websocket 1 and then websocket 2 registered for the same user, and a frame
\* websocket 1 sent to that user was delivered on websocket 2
C5_Witness ==
    \E i \in Fids :
        /\ frameLog[i].outcome = "delivered"
        /\ frameLog[i].conn = 1
        /\ cuser[1] = cuser[2]
        /\ frameLog[i].frame.receiver_id = cuser[1]
        /\ frameLog[i].expect = 2
        /\ [ch |-> 2, frame |-> [id |-> frameLog[i].mid, sender_id |-> cuser[1],
                                 receiver_id |-> cuser[1],
                                 original_message |-> frameLog[i].frame.message,
                                 translated_message |-> messages[frameLog[i].mid].translated_message,
                                 timestamp |-> messages[frameLog[i].mid].timestamp]]
              \in outbox

\* C6: every inbound frame with a receiver in the users table whose delivery
\* was attempted has exactly one row in the messages table, whether the push
\* succeeded, failed or the receiver was not registered; the table holds no
\* other rows, and a well-formed frame with such a receiver is never dropped
WellFormed(f) == "receiver_id" \in DOMAIN f /\ "message" \in DOMAIN f

C6_ExactlyOnePersisted ==
    /\ \A i \in Fids :
          (WellFormed(frameLog[i].frame) /\ frameLog[i].frame.receiver_id \in UserIds)
              => frameLog[i].outcome \in Attempted \cup {"translating", "persist_failed"}
    /\ \A i \in Fids :
          frameLog[i].outcome \in Attempted
              => /\ frameLog[i].persisted = 1
                 /\ Cardinality({ k \in 1..Len(messages) :
                        /\ messages[k].id = frameLog[i].mid
                        /\ messages[k].sender_id = cuser[frameLog[i].conn]
                        /\ messages[k].receiver_id = frameLog[i].frame.receiver_id
                        /\ messages[k].original_message = frameLog[i].frame.message }) = 1
    /\ \A i, j \in Fids :
          (i # j /\ frameLog[i].outcome \in Attempted /\ frameLog[j].outcome \in Attempted)
              => frameLog[i].mid # frameLog[j].mid
    /\ Len(messages) = Cardinality({ i \in Fids : frameLog[i].outcome \in Attempted })

\* one frame whose push failed and one whose receiver was not registered
C6_Witness ==
    \E i, j \in Fids :
        /\ frameLog[i].outcome = "push_failed"
        /\ frameLog[j].outcome = "absent"
        /\ Len(messages) = 2

\* C7: every frame pushed or being pushed to a channel carries the id and the
\* fields of a row that is already in the messages table
Persisted(f) ==
    \E k \in 1..Len(messages) :
        /\ messages[k].id = f.id
        /\ messages[k].sender_id = f.sender_id
        /\ messages[k].receiver_id = f.receiver_id
        /\ messages[k].original_message = f.original_message
        /\ messages[k].translated_message = f.translated_message

C7_PersistBeforeDeliver ==
    /\ \A o \in outbox : Persisted(o.frame)
    /\ \A c \in Conns : pc[c] = "sending" => Persisted(sending[c])

\* a frame is on a channel and another one is being pushed
C7_Witness ==
    /\ outbox # {}
    /\ \E c \in Conns : pc[c] = "sending"

\* C8: every channel in the registry belongs to a connection whose handler is
\* still running, under the user of that handler; once a handler has ended
\* the registry does not map its user to its channel
C8_CleanupOnExit ==
    /\ \A p \in reg : pc[p[2]] \in Active /\ cuser[p[2]] = p[1]
    /\ \A c \in Conns : pc[c] = "done" => <<cuser[c], c>> \notin reg

\* a connection that was registered has ended while the other one is
\* registered
C8_Witness ==
    \E c, d \in Conns :
        /\ pc[c] = "done"
        /\ cuser[c] # NoUser
        /\ lastReg[cuser[c]] = c
        /\ <<cuser[d], d>> \in reg

\* C9: a send never raises KeyError; it pushes only to a channel that the
\* registry held for the receiver at its lookup, and pushes nothing when the
\* registry held none, whatever unregister runs before or after the lookup
C9_SendUnregisterSafe ==
    \A i \in Fids :
        /\ frameLog[i].outcome # "key_error"
        /\ frameLog[i].outcome \in Pushing => frameLog[i].target \in frameLog[i].view
        /\ frameLog[i].outcome = "absent"
              => /\ frameLog[i].view = {}
                 /\ \A o \in outbox : o.frame.id # frameLog[i].mid
        /\ \A o \in outbox :
              o.frame.id = frameLog[i].mid => o.ch \in frameLog[i].view

\* a push completed after its target was unregistered, and a later send
\* found the receiver gone
C9_Witness ==
    \E i, j \in Fids :
        /\ frameLog[i].outcome = "delivered"
        /\ <<frameLog[i].frame.receiver_id, frameLog[i].target>> \notin reg
        /\ frameLog[j].outcome = "absent"
        /\ frameLog[j].frame.receiver_id = frameLog[i].frame.receiver_id

\* C10: the step that receives a frame whose receiver_id is not the id of a
\* user persists nothing, pushes nothing, leaves the registry unchanged and
\* leaves the sender Active
UnknownReceiver(f) ==
    "receiver_id" \in DOMAIN f /\ f.receiver_id \notin UserIds

C10_UnknownReceiverIgnored ==
    [][(Len(frameLog') = Len(frameLog) + 1
            /\ UnknownReceiver(frameLog'[Len(frameLog')].frame))
          => /\ messages' = messages
             /\ outbox' = outbox
             /\ reg' = reg
             /\ wsOpen' = wsOpen
             /\ pc' = pc
             /\ pc[frameLog'[Len(frameLog')].conn] = "recv"
             /\ \A c \in Conns : pc[c] # "sending" => sending'[c] = NoFrame]_vars

\* a frame for an unknown receiver was received, with and without a message,
\* by a connection that is still Active
C10_Witness ==
    \E i, j \in Fids :
        /\ UnknownReceiver(frameLog[i].frame)
        /\ UnknownReceiver(frameLog[j].frame)
        /\ "message" \in DOMAIN frameLog[i].frame
        /\ "message" \notin DOMAIN frameLog[j].frame
        /\ frameLog[i].conn = frameLog[j].conn
        /\ pc[frameLog[i].conn] = "recv"

\* C11: a connection attempt that fails authentication (bad or missing
\* token, unknown user) ends closed with code 1008 and leaves the registry
\* and the messages table as they were
C11_AuthFailureClosedWith1008 ==
    [][\A c \in Conns :
          (pc[c] = "new" /\ pc'[c] = "done")
              => /\ closeCodes'[c] = << 1008 >>
                 /\ reg' = reg
                 /\ lastReg' = lastReg
                 /\ messages' = messages]_vars

\* C12: the step that receives a malformed frame (receiver_id or message
\* missing) ends the connection and persists nothing, whether or not the
\* receiver_id is the id of a user
C12_MalformedFrameTerminates ==
    [][(Len(frameLog') = Len(frameLog) + 1
            /\ ~WellFormed(frameLog'[Len(frameLog')].frame))
          => /\ pc'[frameLog'[Len(frameLog')].conn] = "done"
             /\ messages' = messages]_vars

\* C13: a frame whose commit failed has no row and no outbound frame, its
\* connection has ended and is not registered, and no later frame of that
\* connection is processed
C13_PersistFailureIsFatal ==
    /\ \A i \in Fids :
          frameLog[i].outcome = "persist_failed"
              => /\ frameLog[i].persisted = 0
                 /\ frameLog[i].mid = NoId
                 /\ pc[frameLog[i].conn] = "done"
                 /\ sending[frameLog[i].conn] = NoFrame
                 /\ <<cuser[frameLog[i].conn], frameLog[i].conn>> \notin reg
                 /\ \A j \in Fids : j > i => frameLog[j].conn # frameLog[i].conn
    /\ \A o \in outbox :
          \E j \in Fids : frameLog[j].outcome = "delivered" /\ frameLog[j].mid = o.frame.id

\* the commit failed for a frame of a registered connection whose receiver
\* was registered on the other websocket
C13_Witness ==
    \E i \in Fids : \E d \in Conns :
        /\ frameLog[i].outcome = "persist_failed"
        /\ d # frameLog[i].conn
        /\ <<frameLog[i].frame.receiver_id, d>> \in reg
        /\ lastReg[cuser[frameLog[i].conn]] = frameLog[i].conn

\* C14: the row of a frame has the translator's output for the text and the
\* receiver's language when the translator returned, and the original text
\* when it raised; in both cases the frame went on to delivery
C14_TranslationFailOpen ==
    \A i \in Fids :
        /\ frameLog[i].outcome \in Attempted => frameLog[i].translator # "none"
        /\ frameLog[i].translator # "none"
              => /\ frameLog[i].outcome \in Attempted
                 /\ messages[frameLog[i].mid].original_message = frameLog[i].frame.message
        /\ frameLog[i].translator = "ok"
              => messages[frameLog[i].mid].translated_message =
                    receiver_language(frameLog[i].frame.receiver_id) \o ":"
                        \o frameLog[i].frame.message
        /\ frameLog[i].translator = "raised"
              => messages[frameLog[i].mid].translated_message = frameLog[i].frame.message

\* one frame was translated and one was not, and the connection of the
\* second is still Active
C14_Witness ==
    \E i, j \in Fids :
        /\ frameLog[i].translator = "ok"
        /\ frameLog[j].translator = "raised"
        /\ frameLog[j].outcome \in {"absent", "delivered"}
        /\ pc[frameLog[j].conn] = "recv"
        /\ messages[frameLog[j].mid].translated_message = "hello"
        /\ messages[frameLog[i].mid].translated_message # "hello"

\* C15: when the receiver exists and no channel is registered for it at
\* delivery time, the step persists the row, pushes nothing and leaves the
\* sender Active; and every later history response for the two users, asked
\* by either of them, contains the row
Between(row, a, b) ==
    \/ (row.sender_id = a /\ row.receiver_id = b)
    \/ (row.sender_id = b /\ row.receiver_id = a)

C15_OfflineReceiverPersisted ==
    [][/\ \A c \in Conns :
            (/\ pc[c] = "translating"
             /\ pc'[c] # "translating"
             /\ messages' # messages
             /\ \A d \in Conns : <<data[c].receiver_id, d>> \notin reg)
                => /\ pc'[c] = "recv"
                   /\ outbox' = outbox
                   /\ sending'[c] = NoFrame
                   /\ Len(messages') = Len(messages) + 1
                   /\ messages'[Len(messages')].sender_id = cuser[c]
                   /\ messages'[Len(messages')].receiver_id = data[c].receiver_id
                   /\ messages'[Len(messages')].original_message = data[c].message
       /\ history' # history
            => \A i \in Fids :
                  (/\ frameLog[i].outcome = "absent"
                   /\ Between(messages[frameLog[i].mid], history'.principal,
                              history'.target))
                      => \E k \in DOMAIN history'.rows :
                            history'.rows[k] = messages[frameLog[i].mid]]_vars

\* a frame found its receiver unregistered, its sender is still Active, and
\* the receiver asked for its history with the sender and got the row
C15_Witness ==
    \E i \in Fids :
        /\ frameLog[i].outcome = "absent"
        /\ pc[frameLog[i].conn] = "recv"
        /\ history # NoHistory
        /\ history.principal = frameLog[i].frame.receiver_id
        /\ history.target = cuser[frameLog[i].conn]
        /\ history.principal # history.target
        /\ \E k \in DOMAIN history.rows : history.rows[k] = messages[frameLog[i].mid]

\* C16: of two frames received on one connection, the earlier one is
\* completely processed (persisted and its delivery attempted) before the
\* later one is received, and their rows are persisted in that order
Resolvable(f) == WellFormed(f) /\ f.receiver_id \in UserIds

C17_HistoryExactAndOrdered ==
    [][history' # history
          => /\ { history'.rows[k] : k \in DOMAIN history'.rows } =
                   { messages[k] : k \in { j \in 1..Len(messages) :
                        Between(messages[j], history'.principal, history'.target) } }
             /\ \A a, b \in DOMAIN history'.rows :
                   a < b => /\ history'.rows[a] # history'.rows[b]
                            /\ history'.rows[a].timestamp <= history'.rows[b].timestamp]_vars

\* C18: every frame written to a channel was pushed for a delivered message,
\* to the channel the registry held for the receiver at the lookup, a channel
\* of the receiver and not of the sender when the two differ; no message is
\* pushed to two channels
C18_PushedOnlyToReceiver ==
    /\ \A o \in outbox :
          \E i \in Fids :
              /\ frameLog[i].outcome = "delivered"
              /\ frameLog[i].mid = o.frame.id
              /\ o.frame.receiver_id = frameLog[i].frame.receiver_id
              /\ o.ch = frameLog[i].target
              /\ o.ch \in frameLog[i].view
              /\ cuser[o.ch] = o.frame.receiver_id
              /\ cuser[frameLog[i].conn] # o.frame.receiver_id => o.ch # frameLog[i].conn
    /\ \A o1, o2 \in outbox : o1.frame.id = o2.frame.id => o1 = o2
    /\ \A c \in Conns :
          pc[c] = "sending" => cuser[target[c]] = sending[c].receiver_id
    /\ \A i \in Fids :
          frameLog[i].outcome \in {"absent", "push_failed", "persist_failed"}
              => \A o \in outbox : o.frame.id # frameLog[i].mid

\* a frame from one user to the other was written to the receiver's channel
\* while the sender's channel was registered too
C18_Witness ==
    \E o \in outbox : \E i \in Fids :
        /\ frameLog[i].mid = o.frame.id
        /\ o.frame.sender_id # o.frame.receiver_id
        /\ <<o.frame.sender_id, frameLog[i].conn>> \in reg
        /\ <<o.frame.receiver_id, o.ch>> \in reg

\* C19: a connection attempt that ends at the handshake, before its channel
\* is installed, leaves the registry unchanged
C19_FailedHandshakeKeepsRegistry ==
    [][\A c \in Conns :
          (pc[c] = "accepting" /\ pc'[c] = "done") => reg' = reg]_vars

\* C20: the sender_id of every row and of every outbound frame is the id of
\* the user named by the token of the connection the inbound frame arrived
\* on, whatever the frame contains
TokenPrincipal(tok) ==
    CASE tok = "tok_alice" -> 1
      [] tok = "tok_bob" -> 2
      [] OTHER -> NoUser

C20_SenderFromToken ==
    /\ \A k \in 1..Len(messages) : \E i \in Fids : frameLog[i].mid = k
    /\ \A i \in Fids :
          frameLog[i].mid # NoId
              => /\ messages[frameLog[i].mid].sender_id
                       = TokenPrincipal(token[frameLog[i].conn])
                 /\ \A o \in outbox :
                       o.frame.id = frameLog[i].mid
                           => o.frame.sender_id = TokenPrincipal(token[frameLog[i].conn])
    /\ \A c \in Conns :
          pc[c] = "sending" => sending[c].sender_id = TokenPrincipal(token[c])

\* alice's connection sent a frame that names bob as its sender, and the
\* frame was persisted and delivered
C20_Witness ==
    \E i \in Fids :
        /\ frameLog[i].outcome = "delivered"
        /\ "sender_id" \in DOMAIN frameLog[i].frame
        /\ frameLog[i].frame.sender_id # TokenPrincipal(token[frameLog[i].conn])
        /\ \E o \in outbox : o.frame.id = frameLog[i].mid

====
